---------------------------- MODULE Spec2Model ----------------------------
(***************************************************************************)
(* A model of canvas_dashboard.py: the term-label heuristic                *)
(* (CanvasAPI.extract_term), the remote course client (CanvasAPI) and the  *)
(* course repository kept by SimpleDashboardApp (in-memory course list,    *)
(* hidden set, cache file, config file, background refresh worker), the    *)
(* configuration screen and the course editor with its note files.         *)
(*                                                                         *)
(* Python values are modelled as follows.                                  *)
(*   str            a sequence of one-character strings                    *)
(*   Optional[str]  PyStr(s) or None (tagged, so that the two compare)     *)
(*   dict           a function whose DOMAIN is the set of keys present     *)
(*   list           a sequence                                             *)
(***************************************************************************)
EXTENDS Integers, Sequences, FiniteSets, Bags, TLC

VARIABLES
    course_data,     \* SpecTerm: the raw course record handed to extract_term
    term_out,        \* SpecTerm: what extract_term returned (NotRun before the call)
    api_courses,     \* SpecMap: the JSON array handed to get_courses
    courses_out,     \* SpecMap: what get_courses returned (NotRun before the call)
    canvas_api,      \* self.canvas_api: None or a CanvasAPI
    courses,         \* self.courses: the in-memory list of Course
    hidden_courses,  \* self.hidden_courses: the set of hidden course ids
    showing_hidden,  \* self.showing_hidden (unset reads as FALSE: hasattr)
    config_file,     \* canvas_config.json
    data_file,       \* canvas_courses.json, the course cache
    screen,          \* what the root window shows: "dashboard", "config" or "editor"
    frame,           \* the widgets of self.scrollable_frame
    after_queue,     \* callbacks posted with root.after, not yet run
    workers,         \* the load_courses threads alive, a bag: threads have no names
    io_failures,     \* how many writes have failed so far
    notification,    \* the notification shown last and still on the window
    note_dirs,       \* the directories at and under <data_dir>/course_notes
    note_files,      \* the files at and under <data_dir>/course_notes, and next to it
    current_course,  \* the name of self.current_course (the editor's course), None if unset
    current_course_dir,  \* self.current_course_dir, None if unset
    current_file_path,   \* self.current_file_path, None or a path
    text_editor,     \* the text typed or loaded into self.text_editor
    file_listbox,    \* the items of self.file_listbox
    unhandled,       \* the last notes handler ended in an exception it did not catch
    thread_limit     \* how many load_courses threads the behaviour lets overlap

funVars == <<course_data, term_out, api_courses, courses_out>>

appVars == <<canvas_api, courses, hidden_courses, showing_hidden, config_file,
             data_file, screen, frame, after_queue, workers, io_failures,
             notification>>

noteVars == <<note_dirs, note_files, current_course, current_course_dir,
              current_file_path, text_editor, file_listbox, unhandled>>

vars == <<funVars, appVars, noteVars, thread_limit>>

-----------------------------------------------------------------------------
(* Python values *)

None == [tag |-> "none", val |-> <<>>]

PyStr(s) == [tag |-> "str", val |-> s]

EmptyDict == [k \in {} |-> 0]

\* dict.get(key, default)
Get(d, key, default) == IF key \in DOMAIN d THEN d[key] ELSE default

\* bool(v) of a value that is None or a dict: None and {} are falsy
Truthy(v) == v # None /\ DOMAIN v # {}

Min(S) == CHOOSE m \in S : \A n \in S : m <= n

-----------------------------------------------------------------------------
(* Characters.  \d is modelled on the ASCII digits, \s on the ASCII        *)
(* whitespace listed, re.IGNORECASE on the ASCII letters.                  *)

Digits == {"0", "1", "2", "3", "4", "5", "6", "7", "8", "9"}

Whitespace == {" ", "\t", "\n", "\r", "\f"}

UpperLetters == <<"A", "B", "C", "D", "E", "F", "G", "H", "I", "J", "K", "L", "M",
                  "N", "O", "P", "Q", "R", "S", "T", "U", "V", "W", "X", "Y", "Z">>

LowerLetters == <<"a", "b", "c", "d", "e", "f", "g", "h", "i", "j", "k", "l", "m",
                  "n", "o", "p", "q", "r", "s", "t", "u", "v", "w", "x", "y", "z">>

lower(c) ==
    IF \E i \in DOMAIN UpperLetters : UpperLetters[i] = c
    THEN LowerLetters[CHOOSE i \in DOMAIN UpperLetters : UpperLetters[i] = c]
    ELSE c

\* the alternation (Fall|Spring|Summer|Winter), in the pattern's order
SeasonAlternatives ==
    << <<"F", "a", "l", "l">>,
       <<"S", "p", "r", "i", "n", "g">>,
       <<"S", "u", "m", "m", "e", "r">>,
       <<"W", "i", "n", "t", "e", "r">> >>

TermLiteral == <<"T", "e", "r", "m", ":">>

CurrentTerm == <<"C", "u", "r", "r", "e", "n", "t", " ", "T", "e", "r", "m">>

-----------------------------------------------------------------------------
(* The regular expressions of extract_term, as re.search evaluates them:   *)
(* the leftmost start position that matches, alternatives tried in order,  *)
(* \s* and \d+ greedy.                                                     *)

NoMatch == [found |-> FALSE, group1 |-> <<>>, group2 |-> <<>>]

Match(g1, g2) == [found |-> TRUE, group1 |-> g1, group2 |-> g2]

\* the literal w at position i of s; ignorecase compares letters case-folded
LiteralAt(s, i, w, ignorecase) ==
    /\ i + Len(w) - 1 <= Len(s)
    /\ \A k \in 1..Len(w) :
          IF ignorecase THEN lower(s[i + k - 1]) = lower(w[k])
                        ELSE s[i + k - 1] = w[k]

\* \d{n} at position i of s
DigitsAt(s, i, n) ==
    /\ i + n - 1 <= Len(s)
    /\ \A k \in i..(i + n - 1) : s[k] \in Digits

\* \s* from position i: the position after the longest run of whitespace
RECURSIVE SkipSpace(_, _)
SkipSpace(s, i) ==
    IF i <= Len(s) /\ s[i] \in Whitespace THEN SkipSpace(s, i + 1) ELSE i

\* \d+ from position i: the position after the longest run of digits
RECURSIVE SkipDigits(_, _)
SkipDigits(s, i) ==
    IF i <= Len(s) /\ s[i] \in Digits THEN SkipDigits(s, i + 1) ELSE i

\* term_pattern = (Fall|Spring|Summer|Winter)\s*(\d{4}), re.IGNORECASE, at i
term_pattern_at(s, i) ==
    LET alts == {a \in DOMAIN SeasonAlternatives :
                    /\ LiteralAt(s, i, SeasonAlternatives[a], TRUE)
                    /\ DigitsAt(s, SkipSpace(s, i + Len(SeasonAlternatives[a])), 4)}
    IN  IF alts = {} THEN NoMatch
        ELSE LET a == Min(alts)
                 j == i + Len(SeasonAlternatives[a])
                 k == SkipSpace(s, j)
             IN  Match(SubSeq(s, i, j - 1), SubSeq(s, k, k + 3))

\* year_pattern = (\d{4}) at i
year_pattern_at(s, i) ==
    IF DigitsAt(s, i, 4) THEN Match(SubSeq(s, i, i + 3), <<>>) ELSE NoMatch

term_id_pattern_at_one_digit(s, i) ==
    IF LiteralAt(s, i, TermLiteral, FALSE)
    THEN LET k == SkipSpace(s, i + Len(TermLiteral))
         IN  IF DigitsAt(s, k, 1) THEN Match(SubSeq(s, k, k), <<>>) ELSE NoMatch
    ELSE NoMatch

\* term_id_pattern = Term:\s*(\d+) at i
term_id_pattern_at(s, i) ==
    IF LiteralAt(s, i, TermLiteral, FALSE)
    THEN LET k == SkipSpace(s, i + Len(TermLiteral))
             e == SkipDigits(s, k)
         IN  IF e > k THEN Match(SubSeq(s, k, e - 1), <<>>) ELSE NoMatch
    ELSE NoMatch

\* the match of a pattern of extract_term at position i of s
pattern_at(pattern, s, i) ==
    CASE pattern = "term_pattern" -> term_pattern_at(s, i)
      [] pattern = "year_pattern" -> year_pattern_at(s, i)
      [] pattern = "term_id_pattern" -> term_id_pattern_at(s, i)

\* re.search: the match at the leftmost position that has one
re_search(pattern, s) ==
    LET starts == {i \in 1..Len(s) : pattern_at(pattern, s, i).found}
    IN  IF starts = {} THEN NoMatch ELSE pattern_at(pattern, s, Min(starts))

\* 'Term:' in name
ContainsTermLiteral(s) == \E i \in 1..Len(s) : LiteralAt(s, i, TermLiteral, FALSE)

-----------------------------------------------------------------------------
(* CanvasAPI.extract_term *)

\* the result of one step of the heuristic: a label, or nothing
NoLabel == [found |-> FALSE, label |-> <<>>]

Label(s) == [found |-> TRUE, label |-> s]

\* 'term' in course_data and course_data['term']
has_explicit_term(cd) == "term" \in DOMAIN cd /\ Truthy(cd["term"])

\* course_data['term'].get('name', '')
explicit_term(cd) == Get(cd["term"], "name", PyStr(<<>>))

\* f"{match.group(1)} {match.group(2)}"
season_year(match) == match.group1 \o <<" ">> \o match.group2

\* term_pattern searched in name, then in course_code
season_step(name, course_code) ==
    LET m1 == re_search("term_pattern", name)
        m2 == re_search("term_pattern", course_code)
    IN  IF m1.found THEN Label(season_year(m1))
        ELSE IF m2.found THEN Label(season_year(m2))
        ELSE NoLabel

year_step_name_only(name, course_code) ==
    LET m1 == re_search("year_pattern", name)
    IN  IF m1.found THEN Label(m1.group1) ELSE NoLabel

\* year_pattern searched in name, then in course_code
year_step(name, course_code) ==
    LET m1 == re_search("year_pattern", name)
        m2 == re_search("year_pattern", course_code)
    IN  IF m1.found THEN Label(m1.group1)
        ELSE IF m2.found THEN Label(m2.group1)
        ELSE NoLabel

term_id_step_unchecked(name) ==
    IF ContainsTermLiteral(name)
    THEN Label(TermLiteral \o <<" ">> \o re_search("term_id_pattern", name).group1)
    ELSE NoLabel

\* if 'Term:' in name: term_id_pattern searched in name
term_id_step(name) ==
    IF ContainsTermLiteral(name)
    THEN LET m == re_search("term_id_pattern", name)
         IN  IF m.found THEN Label(TermLiteral \o <<" ">> \o m.group1) ELSE NoLabel
    ELSE NoLabel

heuristic_term_year_first(name, course_code) ==
    LET y == year_step(name, course_code)
        s == season_step(name, course_code)
        t == term_id_step(name)
    IN  IF y.found THEN y.label
        ELSE IF s.found THEN s.label
        ELSE IF t.found THEN t.label
        ELSE CurrentTerm

\* the steps of extract_term after the explicit term, first match returned
heuristic_term(name, course_code) ==
    LET s == season_step(name, course_code)
        y == year_step(name, course_code)
        t == term_id_step(name)
    IN  IF s.found THEN s.label
        ELSE IF y.found THEN y.label
        ELSE IF t.found THEN t.label
        ELSE CurrentTerm

extract_term_heuristic_first(cd) ==
    LET h == heuristic_term(Get(cd, "name", <<>>), Get(cd, "course_code", <<>>))
    IN  IF h # CurrentTerm \/ ~has_explicit_term(cd) THEN PyStr(h)
        ELSE explicit_term(cd)

extract_term(cd) ==
    IF has_explicit_term(cd)
    THEN explicit_term(cd)
    ELSE PyStr(heuristic_term(Get(cd, "name", <<>>), Get(cd, "course_code", <<>>)))

-----------------------------------------------------------------------------
(* The records extract_term is applied to under SpecTerm *)

\* the number of fragments in name and course_code together
MaxFrags == 3

Fragments ==
    << <<"F", "a", "l", "l">>,
       <<"w", "i", "n", "t", "e", "r">>,
       <<" ">>,
       <<"2", "0", "2", "4">>,
       <<"2", "0", "9", "9">>,
       <<"4", "2">>,
       <<"T", "e", "r", "m", ":">> >>

RECURSIVE Flatten(_)
Flatten(fs) == IF fs = <<>> THEN <<>> ELSE Fragments[Head(fs)] \o Flatten(Tail(fs))

FragSeqs(n) == UNION {[1..k -> DOMAIN Fragments] : k \in 0..n}

\* the values of the 'term' key: null, {}, and objects with and without a name
TermValues ==
    { None,
      EmptyDict,
      [id |-> 7],
      [id |-> 7, name |-> PyStr(<<>>)],
      [id |-> 7, name |-> PyStr(<<"T", "1">>)] }

TermRecords ==
    LET texts == {p \in FragSeqs(MaxFrags) \X FragSeqs(MaxFrags) :
                     Len(p[1]) + Len(p[2]) <= MaxFrags}
        base  == {[name |-> Flatten(p[1]), course_code |-> Flatten(p[2])] : p \in texts}
                   \cup {[course_code |-> Flatten(f)] : f \in FragSeqs(MaxFrags)}
                   \cup {[name |-> Flatten(f)] : f \in FragSeqs(MaxFrags)}
    IN  base \cup {[k \in DOMAIN b \cup {"term"} |->
                       IF k = "term" THEN t ELSE b[k]] : b \in base, t \in TermValues}

NotRun == [tag |-> "notrun", val |-> <<>>]

-----------------------------------------------------------------------------
(* Text helpers *)

\* str.rstrip(chars)
RECURSIVE rstrip(_, _)
rstrip(s, chars) ==
    IF s # <<>> /\ s[Len(s)] \in chars THEN rstrip(SubSeq(s, 1, Len(s) - 1), chars) ELSE s

RECURSIVE lstrip(_, _)
lstrip(s, chars) ==
    IF s # <<>> /\ Head(s) \in chars THEN lstrip(Tail(s), chars) ELSE s

\* mutant of strip: the text is taken as typed
strip_skipped(s) == s

\* str.strip()
strip(s) == lstrip(rstrip(s, Whitespace), Whitespace)

\* dict with d[key] = value
Put(d, key, value) == [k \in DOMAIN d \cup {key} |-> IF k = key THEN value ELSE d[k]]

\* list(a_set) of integers, in ascending order
RECURSIVE list(_)
list(S) == IF S = {} THEN <<>> ELSE <<Min(S)>> \o list(S \ {Min(S)})

\* set(a_list)
set(l) == {l[i] : i \in DOMAIN l}

UnknownCourse ==
    <<"U", "n", "k", "n", "o", "w", "n", " ", "C", "o", "u", "r", "s", "e">>

\* datetime.now().isoformat(): the time is not modelled
Now == "now"

-----------------------------------------------------------------------------
(* The remote API: the course objects and the answers the model draws from *)

\* every key present, an explicit term name
RawBio ==
    [id |-> 1, name |-> <<"B", "i", "o">>, course_code |-> <<"B", "1">>,
     workflow_state |-> "completed", term |-> [id |-> 7, name |-> PyStr(<<"T", "1">>)],
     start_at |-> PyStr(<<"d">>), end_at |-> None]

\* no course_code, workflow_state, term, start_at or end_at
RawArt == [id |-> 2, name |-> <<"A", "r", "t", "2", "0", "2", "4">>]

\* course 2 again, with a term object that has no name
RawLab == [id |-> 2, course_code |-> <<"L">>, term |-> [id |-> 7]]

CourseArrays == {<<>>, <<RawArt, RawBio>>, <<RawLab>>}

\* what urlopen meets: a 2xx answer whose body is a JSON array or a JSON object,
\* a non-2xx answer (HTTPError), no answer (URLError, status 0)
Responses ==
    {[status |-> 200, body |-> "array", items |-> a] : a \in CourseArrays}
        \cup {[status |-> 200, body |-> "object", items |-> <<>>]}
        \cup {[status |-> st, body |-> "none", items |-> <<>>] : st \in {401, 404, 0}}

\* no request is made
NoRequest == [status |-> 0, body |-> "no_request", items |-> <<>>]

\* what a handler's test fetch is answered with, NoRequest when the handler
\* returns before it fetches
TestFetches == Responses \cup {NoRequest}

\* the endpoint answered with a JSON array
Answered(resp) == resp.status = 200 /\ resp.body = "array"

-----------------------------------------------------------------------------
(* CanvasAPI *)

\* CanvasAPI.__init__
CanvasAPI(base_url, token) ==
    [tag |-> "api", base_url |-> rstrip(base_url, {"/"}), token |-> token]

\* make_request: the parsed body, or [] on any exception
make_request(resp) ==
    IF resp.status = 200 /\ resp.body \in {"array", "object"}
    THEN [json |-> resp.body, items |-> resp.items]
    ELSE [json |-> "array", items |-> <<>>]

\* mutant of map_course: a record without a name gets its course_code as name
map_course_named_by_code(cd) ==
    [id |-> Get(cd, "id", None),
     name |-> Get(cd, "name", Get(cd, "course_code", <<>>)),
     course_code |-> Get(cd, "course_code", <<>>),
     workflow_state |-> Get(cd, "workflow_state", "available"),
     term |-> extract_term(cd),
     start_at |-> Get(cd, "start_at", None),
     end_at |-> Get(cd, "end_at", None)]

\* Course(...) of one raw course object
map_course(cd) ==
    [id |-> Get(cd, "id", None),
     name |-> Get(cd, "name", UnknownCourse),
     course_code |-> Get(cd, "course_code", <<>>),
     workflow_state |-> Get(cd, "workflow_state", "available"),
     term |-> extract_term(cd),
     start_at |-> Get(cd, "start_at", None),
     end_at |-> Get(cd, "end_at", None)]

NoError == [class |-> "none", status |-> 0]

\* get_courses: the list returned, or the exception raised.  Iterating a JSON
\* object yields its keys, and str has no get: AttributeError.
get_courses(resp) ==
    LET courses_data == make_request(resp)
    IN  IF courses_data.json = "array"
        THEN [raised |-> FALSE, error |-> NoError,
              value |-> [i \in DOMAIN courses_data.items |-> map_course(courses_data.items[i])]]
        ELSE [raised |-> TRUE, error |-> [class |-> "AttributeError", status |-> 0],
              value |-> <<>>]

-----------------------------------------------------------------------------
(* Files.  A file is absent, holds a JSON document, or holds text that is  *)
(* no JSON document (a write that failed after open() truncated the file). *)

Absent == [kind |-> "absent", json |-> EmptyDict]

Corrupt == [kind |-> "corrupt", json |-> EmptyDict]

Json(d) == [kind |-> "json", json |-> d]

\* how open(path, 'w') followed by json.dump ends
WriteOutcomes == {"ok", "open_fails", "write_fails"}

\* how a handler's write ends: "not_written" when it returns or raises before
\* it opens the file
WriteEnds == WriteOutcomes \cup {"not_written"}

\* the file after with open(path, 'w') as f: json.dump(d, f)
write_json(file, d, outcome) ==
    CASE outcome = "ok" -> Json(d)
      [] outcome = "open_fails" -> file
      [] outcome = "write_fails" -> Corrupt
      [] outcome = "not_written" -> file

-----------------------------------------------------------------------------
(* SimpleDashboardApp: persistence *)

\* save_hidden_courses: the config file afterwards.  An exception (json.load of a
\* corrupt file, a failed write) is printed and swallowed.
save_hidden_courses(file, hidden, outcome) ==
    IF file.kind = "corrupt" THEN file
    ELSE LET config == IF file.kind = "json" THEN file.json ELSE EmptyDict
         IN  write_json(file, Put(config, "hidden_courses", list(hidden)), outcome)

\* load_hidden_courses: self.hidden_courses afterwards
load_hidden_courses(file) ==
    IF file.kind = "json" THEN set(Get(file.json, "hidden_courses", <<>>)) ELSE {}

\* load_config: self.canvas_api afterwards (None before, in __init__)
load_config(file) ==
    IF /\ file.kind = "json"
       /\ Get(file.json, "canvas_url", <<>>) # <<>>
       /\ Get(file.json, "canvas_token", <<>>) # <<>>
    THEN CanvasAPI(file.json["canvas_url"], file.json["canvas_token"])
    ELSE None

\* course_dict of save_courses_to_cache
course_dict(course) ==
    [id |-> course.id, name |-> course.name, course_code |-> course.course_code,
     workflow_state |-> course.workflow_state, term |-> course.term,
     start_at |-> course.start_at, end_at |-> course.end_at]

\* cache_data of save_courses_to_cache
cache_data(cs) ==
    [courses |-> [i \in DOMAIN cs |-> course_dict(cs[i])],
     last_updated |-> Now,
     total_courses |-> Len(cs)]

\* save_courses_to_cache: the cache file afterwards; a failed write is printed
\* and swallowed
save_courses_to_cache(file, cs, outcome) == write_json(file, cache_data(cs), outcome)

\* mutant of cached_course: the course code is looked up under 'code'
cached_course_code_renamed(d) ==
    [id |-> Get(d, "id", None),
     name |-> Get(d, "name", UnknownCourse),
     course_code |-> Get(d, "code", <<>>),
     workflow_state |-> Get(d, "workflow_state", "available"),
     term |-> Get(d, "term", None),
     start_at |-> Get(d, "start_at", None),
     end_at |-> Get(d, "end_at", None)]

\* Course(...) of one cached course_dict
cached_course(d) ==
    [id |-> Get(d, "id", None),
     name |-> Get(d, "name", UnknownCourse),
     course_code |-> Get(d, "course_code", <<>>),
     workflow_state |-> Get(d, "workflow_state", "available"),
     term |-> Get(d, "term", None),
     start_at |-> Get(d, "start_at", None),
     end_at |-> Get(d, "end_at", None)]

\* the loop of load_cached_courses over courses_data: the courses appended to
\* self.courses.  An entry that is no JSON object (null) has no get: the
\* AttributeError ends the loop, and what was appended before it stays.
RECURSIVE cached_courses(_)
cached_courses(courses_data) ==
    IF courses_data = <<>> \/ Head(courses_data) = None THEN <<>>
    ELSE <<cached_course(Head(courses_data))>> \o cached_courses(Tail(courses_data))

\* load_cached_courses takes its except branch: json.load fails, or an entry
\* of the list is no JSON object
cache_load_raised(file) ==
    \/ file.kind = "corrupt"
    \/ /\ file.kind = "json"
       /\ \E i \in DOMAIN Get(file.json, "courses", <<>>) :
             Get(file.json, "courses", <<>>)[i] = None

\* load_cached_courses: self.courses afterwards ([] before, in __init__)
load_cached_courses(file) ==
    IF file.kind = "json"
    THEN cached_courses(Get(file.json, "courses", <<>>))
    ELSE <<>>

-----------------------------------------------------------------------------
(* SimpleDashboardApp: the dashboard *)

Blank == [kind |-> "blank", cards |-> <<>>]

LoadingLabel == [kind |-> "loading", cards |-> <<>>]

NoCoursesLabel == [kind |-> "no_courses", cards |-> <<>>]

\* mutant of course_cards: each card is put in front of the earlier ones
RECURSIVE course_cards_stacked(_, _, _)
course_cards_stacked(cs, hid, hidden) ==
    IF cs = <<>> THEN <<>>
    ELSE course_cards_stacked(Tail(cs), hid, hidden)
         \o (IF (Head(cs).id \in hid) = hidden
             THEN <<[id |-> Head(cs).id, hidden |-> hidden]>> ELSE <<>>)

\* the cards of the courses of cs that are (hidden = TRUE) or are not in hid
RECURSIVE course_cards(_, _, _)
course_cards(cs, hid, hidden) ==
    IF cs = <<>> THEN <<>>
    ELSE (IF (Head(cs).id \in hid) = hidden
          THEN <<[id |-> Head(cs).id, hidden |-> hidden]>> ELSE <<>>)
         \o course_cards(Tail(cs), hid, hidden)

\* display_courses: the scrollable frame afterwards
display_courses(cs, hid) ==
    IF cs = <<>> THEN NoCoursesLabel
    ELSE [kind |-> "cards", cards |-> course_cards(cs, hid, FALSE)]

\* display_all_courses: the scrollable frame afterwards
display_all_courses(cs, hid) ==
    IF cs = <<>> THEN NoCoursesLabel
    ELSE [kind |-> "cards",
          cards |-> course_cards(cs, hid, FALSE) \o course_cards(cs, hid, TRUE)]

-----------------------------------------------------------------------------
(* The application: the UI thread's handlers, the refresh worker's steps,  *)
(* the event loop running posted callbacks, and a restart of the process.  *)

\* load_courses threads alive at once, where refreshes overlap
MaxWorkers == 2

\* callbacks posted and not yet run
MaxQueue == 1

\* writes that fail in one behaviour
MaxIoFailures == 1

\* what the user may type into the URL and token fields
UrlInputs == {<<>>, <<"u", "/">>}

TokenInputs == {<<>>, <<" ">>, <<"t">>}

CourseIds == {1, 2}

\* a thread: where it is in load_courses, the courses it hands to
\* save_courses_to_cache, whether the try block got through
Thread(pc, arg, ok) == [pc |-> pc, arg |-> arg, ok |-> ok]

\* show_notification(message, notification_type) called by a handler; the
\* message is told by the handler that shows it
Notification(by, type) == [by |-> by, type |-> type]

\* no notification on the window
NoNotification == Notification("none", "none")

\* root.after(delay, cb)
Callback(cb, delay) == [cb |-> cb, delay |-> delay]

\* the thread t goes on as u
Become(t, u) == workers' = (workers (-) SetToBag({t})) (+) SetToBag({u})

\* a write that ends as outcome: a failure counts against MaxIoFailures
Write(outcome) ==
    IF outcome = "ok" THEN UNCHANGED io_failures
    ELSE io_failures < MaxIoFailures /\ io_failures' = io_failures + 1

\* a write to the config file, which the handlers attempt only after reading
\* it: json.load of a corrupt file raises before anything is opened for writing
ConfigWrite(outcome) ==
    IF config_file.kind = "corrupt"
    THEN outcome = "not_written" /\ UNCHANGED io_failures
    ELSE outcome \in WriteOutcomes /\ Write(outcome)

\* threading.Thread(target=load_courses, daemon=True).start()
StartWorker ==
    /\ BagCardinality(workers) < thread_limit
    /\ workers' = workers (+) SetToBag({Thread("fetch", <<>>, TRUE)})

\* __init__: load_config, load_hidden_courses, load_cached_courses on the files
\* found; load_cached_courses posts display_courses when it loaded courses
Constructed(cfg, cache) ==
    /\ canvas_api = load_config(cfg)
    /\ hidden_courses = load_hidden_courses(cfg)
    /\ courses = load_cached_courses(cache)
    /\ showing_hidden = FALSE
    /\ screen = "dashboard"
    /\ frame = Blank
    /\ after_queue = IF ~cache_load_raised(cache) /\ load_cached_courses(cache) # <<>>
                     THEN <<Callback("display_courses", 100)>> ELSE <<>>
    /\ workers = EmptyBag
    /\ io_failures = 0
    /\ notification = NoNotification
    /\ current_course = None
    /\ current_course_dir = None
    /\ current_file_path = None
    /\ text_editor = <<>>
    /\ file_listbox = <<>>
    /\ unhandled = FALSE

\* a first start: no file on disk
Init ==
    /\ course_data = EmptyDict
    /\ term_out = NotRun
    /\ api_courses = <<>>
    /\ courses_out = NotRun
    /\ config_file = Absent
    /\ data_file = Absent
    /\ Constructed(Absent, Absent)
    /\ thread_limit = 1
    /\ note_dirs = {}
    /\ note_files = EmptyDict

\* on_closing, then main() again: the threads are daemons and die with the process
Restart ==
    /\ canvas_api' = load_config(config_file)
    /\ hidden_courses' = load_hidden_courses(config_file)
    /\ courses' = load_cached_courses(data_file)
    /\ showing_hidden' = FALSE
    /\ screen' = "dashboard"
    /\ frame' = Blank
    /\ after_queue' = IF ~cache_load_raised(data_file)
                            /\ load_cached_courses(data_file) # <<>>
                      THEN <<Callback("display_courses", 100)>> ELSE <<>>
    /\ workers' = EmptyBag
    /\ notification' = NoNotification
    /\ current_course' = None
    /\ current_course_dir' = None
    /\ current_file_path' = None
    /\ text_editor' = <<>>
    /\ file_listbox' = <<>>
    /\ unhandled' = FALSE
    /\ UNCHANGED <<config_file, data_file, io_failures, note_dirs, note_files, funVars,
                   thread_limit>>

\* mutant of refresh_courses: the thread is started without a client too
RefreshCourses_without_client_check ==
    /\ screen = "dashboard"
    /\ frame' = LoadingLabel
    /\ StartWorker
    /\ UNCHANGED <<screen, notification>>
    /\ UNCHANGED <<canvas_api, courses, hidden_courses, showing_hidden, config_file,
                   data_file, after_queue, io_failures, funVars, noteVars, thread_limit>>

\* refresh_courses, the Refresh button
RefreshCourses ==
    /\ screen = "dashboard"
    /\ IF canvas_api = None
       THEN \* the warning is shown, and configure_api destroys the widgets of
            \* the root window, the warning among them
            /\ screen' = "config"
            /\ frame' = Blank
            /\ notification' = NoNotification
            /\ UNCHANGED workers
       ELSE /\ frame' = LoadingLabel
            /\ StartWorker
            /\ UNCHANGED <<screen, notification>>
    /\ UNCHANGED <<canvas_api, courses, hidden_courses, showing_hidden, config_file,
                   data_file, after_queue, io_failures, funVars, noteVars, thread_limit>>

\* mutant of WorkerFetch: the hidden ids of courses no longer fetched are dropped
WorkerFetch_prunes_hidden(t, resp) ==
    /\ t.pc = "fetch"
    /\ LET r == get_courses(resp)
       IN  IF r.raised
           THEN /\ Become(t, Thread("post", <<>>, FALSE))
                /\ UNCHANGED <<courses, hidden_courses>>
           ELSE /\ Become(t, Thread("write", r.value, TRUE))
                /\ courses' = r.value
                /\ hidden_courses' = {id \in hidden_courses :
                                        \E i \in DOMAIN r.value : r.value[i].id = id}
    /\ UNCHANGED <<canvas_api, showing_hidden, config_file, data_file,
                   screen, frame, after_queue, io_failures, funVars, notification, noteVars,
                   thread_limit>>

\* load_courses, line 447: self.courses = self.canvas_api.get_courses(), and
\* the call of line 448 as far as evaluating its argument self.courses, which
\* the thread does right after the assignment: arg is what it will write
WorkerFetch(t, resp) ==
    /\ t.pc = "fetch"
    /\ LET r == get_courses(resp)
       IN  IF r.raised
           THEN /\ Become(t, Thread("post", <<>>, FALSE))
                /\ UNCHANGED courses
           ELSE /\ Become(t, Thread("write", r.value, TRUE))
                /\ courses' = r.value
    /\ UNCHANGED <<canvas_api, hidden_courses, showing_hidden, config_file, data_file,
                   screen, frame, after_queue, io_failures, funVars, notification, noteVars,
                   thread_limit>>

\* save_courses_to_cache: the file is opened and written
WorkerSaveWrite(t, outcome) ==
    /\ t.pc = "write"
    /\ data_file' = save_courses_to_cache(data_file, t.arg, outcome)
    /\ Write(outcome)
    /\ Become(t, Thread("post", <<>>, TRUE))
    /\ UNCHANGED <<canvas_api, courses, hidden_courses, showing_hidden, config_file,
                   screen, frame, after_queue, funVars, notification, noteVars,
                   thread_limit>>

\* load_courses whose except branch posts nothing
WorkerPost_silent_on_failure(t) ==
    /\ t.pc = "post"
    /\ Len(after_queue) < MaxQueue
    /\ after_queue' = IF t.ok THEN Append(after_queue, Callback("refresh_ok", 0))
                               ELSE after_queue
    /\ workers' = workers (-) SetToBag({t})
    /\ UNCHANGED <<canvas_api, courses, hidden_courses, showing_hidden, config_file,
                   data_file, screen, frame, io_failures, funVars, notification, noteVars,
                   thread_limit>>

\* load_courses, lines 449-451 or 453-455: the callbacks posted in one go
\* (display_courses, update_status_label and the success notification, or the
\* error notification, the loading label's text and display_courses); the
\* thread ends
WorkerPost(t) ==
    /\ t.pc = "post"
    /\ Len(after_queue) < MaxQueue
    /\ after_queue' = Append(after_queue,
                             Callback(IF t.ok THEN "refresh_ok" ELSE "refresh_failed", 0))
    /\ workers' = workers (-) SetToBag({t})
    /\ UNCHANGED <<canvas_api, courses, hidden_courses, showing_hidden, config_file,
                   data_file, screen, frame, io_failures, funVars, notification, noteVars,
                   thread_limit>>

\* the event loop runs a posted callback: one posted earlier with no longer a
\* delay runs first
RunAfter(i) ==
    /\ i \in DOMAIN after_queue
    /\ \A j \in 1..(i - 1) : after_queue[j].delay > after_queue[i].delay
    /\ after_queue' = SubSeq(after_queue, 1, i - 1)
                          \o SubSeq(after_queue, i + 1, Len(after_queue))
    /\ IF after_queue[i].cb = "return_to_dashboard_and_refresh"
       THEN /\ screen' = "dashboard"
            /\ notification' = NoNotification
            /\ IF canvas_api = None
               THEN /\ frame' = display_courses(courses, hidden_courses)
                    /\ UNCHANGED workers
               ELSE /\ frame' = LoadingLabel
                    /\ StartWorker
       ELSE \* display_courses; on another screen the frame is destroyed and the
            \* callback ends in a TclError.  The notification of load_courses
            \* is a callback of its own and is shown on any screen; the one of
            \* line 453 reads e after the except block has unbound it, ends in
            \* a NameError inside the event loop and shows nothing.
            /\ frame' = IF screen = "dashboard"
                        THEN display_courses(courses, hidden_courses) ELSE frame
            /\ notification' =
                  CASE after_queue[i].cb = "refresh_ok"
                          -> Notification("load_courses", "success")
                    [] OTHER -> notification
            /\ UNCHANGED <<screen, workers>>
    /\ UNCHANGED <<canvas_api, courses, hidden_courses, showing_hidden, config_file,
                   data_file, io_failures, funVars, noteVars, thread_limit>>

\* self.hidden_courses.add(course.id)
hide(hidden, id) == hidden \cup {id}

\* if course.id in self.hidden_courses: self.hidden_courses.remove(course.id)
unhide(hidden, id) == IF id \in hidden THEN hidden \ {id} ELSE hidden

\* hide_course(course) with course.id = id
hide_course(id, outcome) ==
    /\ screen = "dashboard"
    /\ hidden_courses' = hide(hidden_courses, id)
    /\ config_file' = save_hidden_courses(config_file, hide(hidden_courses, id), outcome)
    /\ ConfigWrite(outcome)
    /\ frame' = display_courses(courses, hide(hidden_courses, id))
    /\ notification' = Notification("hide_course", "info")
    /\ UNCHANGED <<canvas_api, courses, showing_hidden, data_file, screen, after_queue,
                   workers, funVars, noteVars, thread_limit>>

\* mutant of unhide_course: the hidden set is saved whether or not the course
\* was hidden
unhide_course_always_saves(id, outcome) ==
    /\ screen = "dashboard"
    /\ hidden_courses' = unhide(hidden_courses, id)
    /\ config_file' = save_hidden_courses(config_file, unhide(hidden_courses, id), outcome)
    /\ ConfigWrite(outcome)
    /\ frame' = IF showing_hidden
                THEN display_all_courses(courses, unhide(hidden_courses, id))
                ELSE display_courses(courses, unhide(hidden_courses, id))
    /\ notification' = Notification("unhide_course", "success")
    /\ UNCHANGED <<canvas_api, courses, showing_hidden, data_file, screen, after_queue,
                   workers, funVars, noteVars, thread_limit>>

\* unhide_course(course) with course.id = id
unhide_course(id, outcome) ==
    /\ screen = "dashboard"
    /\ IF id \in hidden_courses
       THEN /\ hidden_courses' = unhide(hidden_courses, id)
            /\ config_file' = save_hidden_courses(config_file, unhide(hidden_courses, id),
                                                  outcome)
            /\ ConfigWrite(outcome)
            /\ frame' = IF showing_hidden
                        THEN display_all_courses(courses, unhide(hidden_courses, id))
                        ELSE display_courses(courses, unhide(hidden_courses, id))
            /\ notification' = Notification("unhide_course", "success")
       ELSE /\ outcome = "not_written"
            /\ UNCHANGED <<hidden_courses, config_file, frame, io_failures, notification>>
    /\ UNCHANGED <<canvas_api, courses, showing_hidden, data_file, screen, after_queue,
                   workers, funVars, noteVars, thread_limit>>

\* the hide button of a course card
HideCourse(id, outcome) ==
    /\ \E c \in DOMAIN frame.cards : frame.cards[c] = [id |-> id, hidden |-> FALSE]
    /\ hide_course(id, outcome)

\* the unhide button of a hidden course card
UnhideCourse(id, outcome) ==
    /\ \E c \in DOMAIN frame.cards : frame.cards[c] = [id |-> id, hidden |-> TRUE]
    /\ unhide_course(id, outcome)

\* show_hidden_courses, View Options
ShowHiddenCourses ==
    /\ screen = "dashboard"
    /\ showing_hidden' = TRUE
    /\ frame' = display_all_courses(courses, hidden_courses)
    /\ notification' = Notification("show_hidden_courses", "info")
    /\ UNCHANGED <<canvas_api, courses, hidden_courses, config_file, data_file, screen,
                   after_queue, workers, io_failures, funVars, noteVars, thread_limit>>

\* show_all_courses, View Options
ShowAllCourses ==
    /\ screen = "dashboard"
    /\ showing_hidden' = FALSE
    /\ frame' = display_courses(courses, hidden_courses)
    /\ notification' = Notification("show_all_courses", "info")
    /\ UNCHANGED <<canvas_api, courses, hidden_courses, config_file, data_file, screen,
                   after_queue, workers, io_failures, funVars, noteVars, thread_limit>>

\* hide_hidden_courses, View Options
HideHiddenCourses ==
    /\ screen = "dashboard"
    /\ showing_hidden' = FALSE
    /\ frame' = display_courses(courses, hidden_courses)
    /\ notification' = Notification("hide_hidden_courses", "info")
    /\ UNCHANGED <<canvas_api, courses, hidden_courses, config_file, data_file, screen,
                   after_queue, workers, io_failures, funVars, noteVars, thread_limit>>

\* configure_api, the Configure API button
ConfigureApi ==
    /\ screen = "dashboard"
    /\ screen' = "config"
    /\ frame' = Blank
    /\ notification' = NoNotification
    /\ UNCHANGED <<canvas_api, courses, hidden_courses, showing_hidden, config_file,
                   data_file, after_queue, workers, io_failures, funVars, noteVars, thread_limit>>

\* return_to_dashboard, the Back button of the configuration screen
ReturnToDashboard ==
    /\ screen = "config"
    /\ screen' = "dashboard"
    /\ frame' = display_courses(courses, hidden_courses)
    /\ notification' = NoNotification
    /\ UNCHANGED <<canvas_api, courses, hidden_courses, showing_hidden, config_file,
                   data_file, after_queue, workers, io_failures, funVars, noteVars, thread_limit>>

\* config_data of save_api_config, merged into what the file held
config_data(file, url, token) ==
    Put(Put(Put(IF file.kind = "json" THEN file.json ELSE EmptyDict,
                "canvas_url", url), "canvas_token", token), "last_updated", Now)

\* save_api_config, the Save & Apply button: resp answers the test fetch,
\* outcome is how the write of the config file ends
SaveApiConfig(url_var, token_var, resp, outcome) ==
    /\ screen = "config"
    /\ LET url == strip(url_var)
           token == strip(token_var)
       IN  IF url = <<>> \/ token = <<>>
           THEN /\ resp = NoRequest /\ outcome = "not_written"
                /\ notification' = Notification("save_api_config", "warning")
                /\ UNCHANGED <<canvas_api, config_file, after_queue, io_failures>>
           ELSE IF resp = NoRequest THEN FALSE
           ELSE IF get_courses(resp).raised
           THEN /\ outcome = "not_written"
                /\ notification' = Notification("save_api_config", "error")
                /\ UNCHANGED <<canvas_api, config_file, after_queue, io_failures>>
           ELSE /\ canvas_api' = CanvasAPI(url, token)
                /\ ConfigWrite(outcome)
                /\ IF config_file.kind = "corrupt"
                   THEN /\ notification' = Notification("save_api_config", "error")
                        /\ UNCHANGED <<config_file, after_queue>>
                   ELSE /\ config_file' = write_json(config_file,
                                              config_data(config_file, url, token), outcome)
                        /\ IF outcome = "ok"
                           THEN /\ Len(after_queue) < MaxQueue
                                /\ after_queue' =
                                      Append(after_queue,
                                             Callback("return_to_dashboard_and_refresh", 1500))
                                /\ notification' = Notification("save_api_config", "success")
                           ELSE /\ notification' = Notification("save_api_config", "error")
                                /\ UNCHANGED after_queue
    /\ UNCHANGED <<courses, hidden_courses, showing_hidden, data_file, screen, frame,
                   workers, funVars, noteVars, thread_limit>>

\* mutant of TestApiConnection: a successful test makes its client the active one
TestApiConnection_keeps_client(url_var, token_var, resp) ==
    /\ screen = "config"
    /\ (strip(url_var) = <<>> \/ strip(token_var) = <<>>) <=> resp = NoRequest
    /\ notification' =
          IF resp = NoRequest
          THEN Notification("test_api_connection", "warning")
          ELSE IF get_courses(resp).raised
          THEN Notification("test_api_connection", "error")
          ELSE Notification("test_api_connection", "success")
    /\ canvas_api' = IF resp = NoRequest \/ get_courses(resp).raised
                     THEN canvas_api
                     ELSE CanvasAPI(strip(url_var), strip(token_var))
    /\ UNCHANGED <<courses, hidden_courses, showing_hidden, config_file,
                   data_file, screen, frame, after_queue, workers, io_failures, funVars, noteVars, thread_limit>>

\* test_api_connection, the Test Connection button: resp answers the test fetch
TestApiConnection(url_var, token_var, resp) ==
    /\ screen = "config"
    /\ (strip(url_var) = <<>> \/ strip(token_var) = <<>>) <=> resp = NoRequest
    /\ notification' =
          IF resp = NoRequest
          THEN Notification("test_api_connection", "warning")
          ELSE IF get_courses(resp).raised
          THEN Notification("test_api_connection", "error")
          ELSE Notification("test_api_connection", "success")
    /\ UNCHANGED <<canvas_api, courses, hidden_courses, showing_hidden, config_file,
                   data_file, screen, frame, after_queue, workers, io_failures, funVars, noteVars, thread_limit>>

Next ==
    \/ Restart
    \/ RefreshCourses
    \/ \E t \in BagToSet(workers), resp \in Responses : WorkerFetch(t, resp)
    \/ \E t \in BagToSet(workers), outcome \in WriteOutcomes : WorkerSaveWrite(t, outcome)
    \/ \E t \in BagToSet(workers) : WorkerPost(t)
    \/ \E i \in 1..MaxQueue : RunAfter(i)
    \/ \E id \in CourseIds, outcome \in WriteEnds : HideCourse(id, outcome)
    \/ \E id \in CourseIds, outcome \in WriteEnds : UnhideCourse(id, outcome)
    \/ ShowHiddenCourses
    \/ ShowAllCourses
    \/ HideHiddenCourses
    \/ ConfigureApi
    \/ ReturnToDashboard
    \/ \E url_var \in UrlInputs, token_var \in TokenInputs, resp \in TestFetches,
          outcome \in WriteEnds : SaveApiConfig(url_var, token_var, resp, outcome)
    \/ \E url_var \in UrlInputs, token_var \in TokenInputs, resp \in TestFetches :
          TestApiConnection(url_var, token_var, resp)

Spec == Init /\ [][Next]_vars

-----------------------------------------------------------------------------
(* SpecConfig: the configuration screen.  The application starts on files  *)
(* left by earlier runs; the user opens the configuration screen, tests    *)
(* and saves connections and goes back; the refresh that a save ends in    *)
(* runs to its end.                                                        *)

\* config files an earlier run can have left: none, one written by
\* save_hidden_courses only, by save_api_config only, by both, a truncated one
ConfigFiles ==
    {Absent,
     Corrupt,
     Json([hidden_courses |-> <<1>>]),
     Json([canvas_url |-> <<"v">>, canvas_token |-> <<"s">>, last_updated |-> Now]),
     Json([canvas_url |-> <<"v">>, canvas_token |-> <<"s">>, last_updated |-> Now,
           hidden_courses |-> <<1>>])}

\* cache files an earlier run can have left: none, the snapshot of a refresh
CacheFiles == {Absent, save_courses_to_cache(Absent, get_courses(
                   [status |-> 200, body |-> "array", items |-> <<RawArt, RawBio>>]).value, "ok")}

InitConfig ==
    /\ course_data = EmptyDict
    /\ term_out = NotRun
    /\ api_courses = <<>>
    /\ courses_out = NotRun
    /\ config_file \in ConfigFiles
    /\ data_file \in CacheFiles
    /\ Constructed(config_file, data_file)
    /\ thread_limit = 1
    /\ note_dirs = {}
    /\ note_files = EmptyDict

NextConfig ==
    \/ ConfigureApi
    \/ ReturnToDashboard
    \/ \E url_var \in UrlInputs, token_var \in TokenInputs, resp \in TestFetches,
          outcome \in WriteEnds : SaveApiConfig(url_var, token_var, resp, outcome)
    \/ \E url_var \in UrlInputs, token_var \in TokenInputs, resp \in TestFetches :
          TestApiConnection(url_var, token_var, resp)

SpecConfig == InitConfig /\ [][NextConfig]_vars

-----------------------------------------------------------------------------
(* Notes: paths, the files under course_notes, the names of notes.  A path *)
(* is the sequence of its components below <data_dir>/course_notes; ".."   *)
(* as first component is <data_dir> itself.                                *)

Path(p) == [tag |-> "path", val |-> p]

Alnum == Digits \cup set(UpperLetters) \cup set(LowerLetters)

\* "".join(c for c in name if c.isalnum() or c in (' ', '-', '_'))
RECURSIVE safe_chars(_)
safe_chars(name) ==
    IF name = <<>> THEN <<>>
    ELSE (IF Head(name) \in Alnum \cup {" ", "-", "_"} THEN <<Head(name)>> ELSE <<>>)
         \o safe_chars(Tail(name))

\* safe_course_name of open_course_details
safe_course_name(name) == rstrip(safe_chars(name), Whitespace)

\* str.endswith
endswith(s, suffix) ==
    /\ Len(s) >= Len(suffix)
    /\ SubSeq(s, Len(s) - Len(suffix) + 1, Len(s)) = suffix

DotTxt == <<".", "t", "x", "t">>

\* if not filename.endswith('.txt'): filename += '.txt'
with_txt(filename) == IF endswith(filename, DotTxt) THEN filename ELSE filename \o DotTxt

\* str.split('/'), as pathlib does to the text joined to a path
RECURSIVE split(_)
split(s) ==
    IF s = <<>> THEN << <<>> >>
    ELSE LET r == split(Tail(s))
         IN  IF Head(s) = "/" THEN << <<>> >> \o r
             ELSE << <<Head(s)>> \o Head(r) >> \o Tail(r)

DotDot == <<".", ".">>

\* the file that open() reaches through dir / parts: pathlib drops empty and
\* "." components, the operating system follows ".." to the parent
RECURSIVE walk(_, _)
walk(dir, parts) ==
    IF parts = <<>> THEN dir
    ELSE LET c == Head(parts)
         IN  IF c = <<>> \/ c = <<".">> THEN walk(dir, Tail(parts))
             ELSE IF c = DotDot
             THEN walk(IF dir = <<>> \/ dir[Len(dir)] = DotDot
                       THEN Append(dir, DotDot)
                       ELSE SubSeq(dir, 1, Len(dir) - 1), Tail(parts))
             ELSE walk(Append(dir, c), Tail(parts))

\* self.current_course_dir / filename, for a relative filename
join(dir, filename) == walk(dir, split(filename))

parent(p) == SubSeq(p, 1, Len(p) - 1)

\* the directories that exist: <data_dir> (made in __init__), and what
\* open_course_details has made
ExistingDirs(dirs) == dirs \cup {<<DotDot>>}

\* file_path.exists()
exists(files, dirs, p) == p \in DOMAIN files \/ p \in ExistingDirs(dirs)

\* the order of str: by code point, shorter first among equal beginnings
CodePoints ==
    <<"\n", " ", "!", "#", "-", ".", "/">> \o
    <<"0", "1", "2", "3", "4", "5", "6", "7", "8", "9">> \o UpperLetters \o <<"_">>
        \o LowerLetters

ord(c) == CHOOSE i \in DOMAIN CodePoints : CodePoints[i] = c

RECURSIVE str_lt(_, _)
str_lt(a, b) ==
    IF b = <<>> THEN FALSE
    ELSE IF a = <<>> THEN TRUE
    ELSE IF Head(a) = Head(b) THEN str_lt(Tail(a), Tail(b))
    ELSE ord(Head(a)) < ord(Head(b))

\* sorted(names)
RECURSIVE sorted(_)
sorted(names) ==
    IF names = {} THEN <<>>
    ELSE LET first == CHOOSE n \in names : \A m \in names \ {n} : str_lt(n, m)
         IN  <<first>> \o sorted(names \ {first})

\* refresh_file_list: the names of the *.txt files of dir, sorted; nothing
\* when current_course_dir is unset or does not exist
listing(files, dirs, dir) ==
    IF dir = None \/ dir.val \notin ExistingDirs(dirs) THEN <<>>
    ELSE sorted({p[Len(p)] : p \in {q \in DOMAIN files :
                                      /\ q # <<>>
                                      /\ parent(q) = dir.val
                                      /\ endswith(q[Len(q)], DotTxt)}})

\* text_editor.get(1.0, tk.END): the text and the newline a Text widget ends with
editor_content(text) == Append(text, "\n")

\* f"# {course.name} - {filename}\n\n"
note_header(name, filename) ==
    <<"#", " ">> \o name \o <<" ", "-", " ">> \o filename \o <<"\n", "\n">>

\* the number of newlines s ends with
RECURSIVE trailing_newlines(_)
trailing_newlines(s) ==
    IF s = <<>> \/ s[Len(s)] # "\n" THEN 0
    ELSE 1 + trailing_newlines(SubSeq(s, 1, Len(s) - 1))

-----------------------------------------------------------------------------
(* Notes: the handlers of the course editor *)

\* the newlines a text may end with and still be saved
MaxTrailing == 1

\* what the user types into the editor
Texts == {<<"h">>}

\* what the user enters as the name of a note (relative names)
FilenameInputs ==
    {<<" ">>, <<"n">>, <<"n", ".", "t", "x", "t">>, <<".", ".", "/", "n">>, <<"a", "/", "n">>}

\* open(p, 'w') can create or truncate p
can_open(files, dirs, p) ==
    /\ p # <<>>
    /\ parent(p) \in ExistingDirs(dirs)
    /\ p \notin ExistingDirs(dirs)

\* the files after with open(p, 'w') as f: f.write(content)
note_write(files, p, content, outcome) ==
    CASE outcome = "ok" -> Put(files, p, content)
      [] outcome = "open_fails" -> files
      [] outcome = "write_fails" -> Put(files, p, <<>>)
      [] outcome = "not_written" -> files

\* open_course_details, a click on the card of courses[c]
OpenCourseDetails(c) ==
    /\ screen = "dashboard"
    /\ c \in DOMAIN courses
    /\ \E k \in DOMAIN frame.cards : frame.cards[k].id = courses[c].id
    /\ LET safe == safe_course_name(courses[c].name)
           dir == IF safe = <<>> THEN <<>> ELSE <<safe>>
       IN  /\ note_dirs' = note_dirs \cup {<<>>, dir}
           /\ current_course' = PyStr(courses[c].name)
           /\ current_course_dir' = Path(dir)
           /\ file_listbox' = listing(note_files, note_dirs \cup {<<>>, dir}, Path(dir))
    /\ current_file_path' = None
    /\ text_editor' = <<>>
    /\ unhandled' = FALSE
    /\ screen' = "editor"
    /\ frame' = Blank
    /\ notification' = NoNotification
    /\ UNCHANGED <<canvas_api, courses, hidden_courses, showing_hidden, config_file,
                   data_file, after_queue, workers, io_failures, note_files, funVars,
                   thread_limit>>

\* return_to_courses, the Back to Courses button
ReturnToCourses ==
    /\ screen = "editor"
    /\ screen' = "dashboard"
    /\ frame' = display_courses(courses, hidden_courses)
    /\ notification' = NoNotification
    /\ UNCHANGED <<canvas_api, courses, hidden_courses, showing_hidden, config_file,
                   data_file, after_queue, workers, io_failures, funVars, noteVars,
                   thread_limit>>

\* the user replaces the text of the editor
TypeText(text) ==
    /\ screen = "editor"
    /\ text_editor' = text
    /\ UNCHANGED <<appVars, note_dirs, note_files, current_course, current_course_dir,
                   current_file_path, file_listbox, unhandled, funVars, thread_limit>>

\* on_file_select, a click on item i of the list
SelectFile(i) ==
    /\ screen = "editor"
    /\ i \in DOMAIN file_listbox
    /\ LET file_path == join(current_course_dir.val, file_listbox[i])
       IN  IF file_path \in DOMAIN note_files
           THEN /\ text_editor' = note_files[file_path]
                /\ current_file_path' = Path(file_path)
                /\ UNCHANGED notification
           ELSE /\ notification' = Notification("on_file_select", "error")
                /\ UNCHANGED <<text_editor, current_file_path>>
    /\ unhandled' = FALSE
    /\ UNCHANGED <<canvas_api, courses, hidden_courses, showing_hidden, config_file,
                   data_file, screen, frame, after_queue, workers, io_failures,
                   note_dirs, note_files, current_course, current_course_dir,
                   file_listbox, funVars, thread_limit>>

\* handle_new_note_creation from refresh_file_list on: the list is rebuilt
\* and the item equal to filename, if there is one, is selected and opened
new_note_listed(files, filename) ==
    /\ file_listbox' = listing(files, note_dirs, current_course_dir)
    /\ IF filename \in set(listing(files, note_dirs, current_course_dir))
       THEN /\ text_editor' = files[join(current_course_dir.val, filename)]
            /\ current_file_path' = Path(join(current_course_dir.val, filename))
       ELSE UNCHANGED <<text_editor, current_file_path>>
    /\ unhandled' = FALSE

\* mutant of handle_new_note_creation: the header is written whether or not
\* the file exists
HandleNewNoteCreation_overwrites(input, outcome) ==
    /\ screen = "editor"
    /\ LET value == strip(input)
           filename == with_txt(value)
           file_path == join(current_course_dir.val, filename)
       IN  IF value = <<>>
           THEN /\ outcome = "not_written"
                /\ unhandled' = FALSE
                /\ UNCHANGED <<note_files, io_failures, text_editor, current_file_path,
                               file_listbox>>
           ELSE IF ~can_open(note_files, note_dirs, file_path)
           THEN /\ outcome = "not_written"
                /\ unhandled' = TRUE
                /\ UNCHANGED <<note_files, io_failures, text_editor, current_file_path,
                               file_listbox>>
           ELSE /\ outcome \in WriteOutcomes
                /\ Write(outcome)
                /\ note_files' = note_write(note_files, file_path,
                                            note_header(current_course.val, filename), outcome)
                /\ IF outcome = "ok"
                   THEN new_note_listed(
                            note_write(note_files, file_path,
                                       note_header(current_course.val, filename), outcome),
                            filename)
                   ELSE /\ unhandled' = TRUE
                        /\ UNCHANGED <<text_editor, current_file_path, file_listbox>>
    /\ UNCHANGED <<canvas_api, courses, hidden_courses, showing_hidden, config_file,
                   data_file, screen, frame, after_queue, workers, notification,
                   note_dirs, current_course, current_course_dir, funVars, thread_limit>>

\* handle_new_note_creation, Confirm in the panel of New Note: input is the
\* text entered, outcome is how the write of the new file ends.  The handler
\* has no try: a failure of open or write leaves it as an exception.
HandleNewNoteCreation(input, outcome) ==
    /\ screen = "editor"
    /\ LET value == strip(input)
           filename == with_txt(value)
           file_path == join(current_course_dir.val, filename)
       IN  IF value = <<>>
           THEN /\ outcome = "not_written"
                /\ unhandled' = FALSE
                /\ UNCHANGED <<note_files, io_failures, text_editor, current_file_path,
                               file_listbox>>
           ELSE IF exists(note_files, note_dirs, file_path)
           THEN /\ outcome = "not_written"
                /\ new_note_listed(note_files, filename)
                /\ UNCHANGED <<note_files, io_failures>>
           ELSE IF ~can_open(note_files, note_dirs, file_path)
           THEN /\ outcome = "not_written"
                /\ unhandled' = TRUE
                /\ UNCHANGED <<note_files, io_failures, text_editor, current_file_path,
                               file_listbox>>
           ELSE /\ outcome \in WriteOutcomes
                /\ Write(outcome)
                /\ note_files' = note_write(note_files, file_path,
                                            note_header(current_course.val, filename), outcome)
                /\ IF outcome = "ok"
                   THEN new_note_listed(
                            note_write(note_files, file_path,
                                       note_header(current_course.val, filename), outcome),
                            filename)
                   ELSE /\ unhandled' = TRUE
                        /\ UNCHANGED <<text_editor, current_file_path, file_listbox>>
    /\ UNCHANGED <<canvas_api, courses, hidden_courses, showing_hidden, config_file,
                   data_file, screen, frame, after_queue, workers, notification,
                   note_dirs, current_course, current_course_dir, funVars, thread_limit>>

\* save_current_note, the Save button: outcome is how the write ends.  With no
\* file open it only shows the panel of Save As.
SaveCurrentNote(outcome) ==
    /\ screen = "editor"
    /\ trailing_newlines(text_editor) <= MaxTrailing
    /\ IF current_file_path = None
       THEN /\ outcome = "not_written"
            /\ UNCHANGED <<note_files, io_failures, notification>>
       ELSE /\ outcome \in WriteOutcomes
            /\ Write(outcome)
            /\ note_files' = note_write(note_files, current_file_path.val,
                                        editor_content(text_editor), outcome)
            /\ notification' = IF outcome = "ok"
                               THEN Notification("save_current_note", "success")
                               ELSE Notification("save_current_note", "error")
    /\ unhandled' = FALSE
    /\ UNCHANGED <<canvas_api, courses, hidden_courses, showing_hidden, config_file,
                   data_file, screen, frame, after_queue, workers, note_dirs,
                   current_course, current_course_dir, current_file_path, text_editor,
                   file_listbox, funVars, thread_limit>>

\* handle_save_note_as, Confirm in the panel of Save As
HandleSaveNoteAs(input, outcome) ==
    /\ screen = "editor"
    /\ trailing_newlines(text_editor) <= MaxTrailing
    /\ LET value == strip(input)
           filename == with_txt(value)
           file_path == join(current_course_dir.val, filename)
       IN  IF value = <<>>
           THEN /\ outcome = "not_written"
                /\ UNCHANGED <<note_files, io_failures, notification, current_file_path,
                               file_listbox>>
           ELSE IF ~can_open(note_files, note_dirs, file_path)
           THEN /\ outcome = "not_written"
                /\ notification' = Notification("handle_save_note_as", "error")
                /\ UNCHANGED <<note_files, io_failures, current_file_path, file_listbox>>
           ELSE /\ outcome \in WriteOutcomes
                /\ Write(outcome)
                /\ note_files' = note_write(note_files, file_path,
                                            editor_content(text_editor), outcome)
                /\ IF outcome = "ok"
                   THEN /\ current_file_path' = Path(file_path)
                        /\ file_listbox' =
                              listing(note_write(note_files, file_path,
                                                 editor_content(text_editor), outcome),
                                      note_dirs, current_course_dir)
                        /\ notification' = Notification("handle_save_note_as", "success")
                   ELSE /\ notification' = Notification("handle_save_note_as", "error")
                        /\ UNCHANGED <<current_file_path, file_listbox>>
    /\ unhandled' = FALSE
    /\ UNCHANGED <<canvas_api, courses, hidden_courses, showing_hidden, config_file,
                   data_file, screen, frame, after_queue, workers, note_dirs,
                   current_course, current_course_dir, text_editor, funVars,
                   thread_limit>>

\* how file_path.unlink() ends
UnlinkOutcomes == {"ok", "unlink_fails"}

\* delete_selected_note and confirm_delete_file, the Delete button and Yes in
\* its dialog, with item i of the list selected.  A click on an item selects
\* it and on_file_select opens it, and every refresh of the list clears the
\* selection: the selected item is the note that is open.
ConfirmDeleteFile(i, outcome) ==
    /\ screen = "editor"
    /\ i \in DOMAIN file_listbox
    /\ current_file_path = Path(join(current_course_dir.val, file_listbox[i]))
    /\ LET file_path == join(current_course_dir.val, file_listbox[i])
           files == [p \in DOMAIN note_files \ {file_path} |-> note_files[p]]
       IN  IF file_path \notin DOMAIN note_files
           THEN /\ outcome = "unlink_fails"
                /\ notification' = Notification("confirm_delete_file", "error")
                /\ UNCHANGED <<note_files, io_failures, current_file_path, text_editor,
                               file_listbox>>
           ELSE /\ outcome \in UnlinkOutcomes
                /\ Write(outcome)
                /\ IF outcome = "ok"
                   THEN /\ note_files' = files
                        /\ text_editor' = <<>>
                        /\ current_file_path' = None
                        /\ file_listbox' = listing(files, note_dirs, current_course_dir)
                        /\ notification' = Notification("confirm_delete_file", "success")
                   ELSE /\ notification' = Notification("confirm_delete_file", "error")
                        /\ UNCHANGED <<note_files, current_file_path, text_editor,
                                       file_listbox>>
    /\ unhandled' = FALSE
    /\ UNCHANGED <<canvas_api, courses, hidden_courses, showing_hidden, config_file,
                   data_file, screen, frame, after_queue, workers, note_dirs,
                   current_course, current_course_dir, funVars, thread_limit>>

-----------------------------------------------------------------------------
(* SpecNotes: the application started on a cache of two courses, the course *)
(* editor and its notes                                                     *)

\* a course whose name holds a character that is not kept and, once it is
\* dropped, ends with a space
RawChem == [id |-> 1, name |-> <<"C", " ", "!">>]

RawDance == [id |-> 2, name |-> <<"D">>]

InitNotes ==
    /\ course_data = EmptyDict
    /\ term_out = NotRun
    /\ api_courses = <<>>
    /\ courses_out = NotRun
    /\ config_file = Absent
    /\ data_file = save_courses_to_cache(Absent,
                       <<map_course(RawChem), map_course(RawDance)>>, "ok")
    /\ Constructed(config_file, data_file)
    /\ thread_limit = 1
    /\ note_dirs = {}
    /\ note_files = EmptyDict

NextNotes ==
    \/ \E i \in 1..MaxQueue : RunAfter(i)
    \/ \E c \in 1..2 : OpenCourseDetails(c)
    \/ ReturnToCourses
    \/ \E text \in Texts : TypeText(text)
    \/ \E i \in 1..3 : SelectFile(i)
    \/ \E input \in FilenameInputs, outcome \in WriteEnds :
          HandleNewNoteCreation(input, outcome)
    \/ \E outcome \in WriteEnds : SaveCurrentNote(outcome)
    \/ \E input \in FilenameInputs, outcome \in WriteEnds : HandleSaveNoteAs(input, outcome)
    \/ \E i \in 1..3, outcome \in UnlinkOutcomes : ConfirmDeleteFile(i, outcome)

SpecNotes == InitNotes /\ [][NextNotes]_vars

\* SpecNewNote: one visit of a course editor, in which notes are created,
\* edited, saved and deleted
NextNewNote ==
    \/ \E i \in 1..MaxQueue : RunAfter(i)
    \/ \E c \in 1..2 : OpenCourseDetails(c)
    \/ \E text \in Texts : TypeText(text)
    \/ \E input \in FilenameInputs, outcome \in WriteEnds :
          HandleNewNoteCreation(input, outcome)
    \/ \E outcome \in WriteEnds : SaveCurrentNote(outcome)
    \/ \E i \in 1..3, outcome \in UnlinkOutcomes : ConfirmDeleteFile(i, outcome)

SpecNewNote == InitNotes /\ [][NextNewNote]_vars

-----------------------------------------------------------------------------
(* SpecStart: the application started on the files an earlier run or another *)
(* program can have left, and the dashboard handlers that need no network    *)

\* the longest list of courses in a cache file
MaxCached == 2

\* an entry of the cached list: a course_dict, or null
CacheEntries ==
    {course_dict(map_course(RawBio)), course_dict(map_course(RawArt)), None}

RECURSIVE CachedLists(_)
CachedLists(n) ==
    IF n = 0 THEN {<<>>}
    ELSE CachedLists(n - 1)
            \cup {Append(l, e) : l \in {k \in CachedLists(n - 1) : Len(k) = n - 1},
                                 e \in CacheEntries}

\* the cache file at startup: missing, not JSON, or a snapshot
StartCacheFiles ==
    {Absent, Corrupt}
        \cup {Json([courses |-> l, last_updated |-> Now, total_courses |-> Len(l)]) :
                 l \in CachedLists(MaxCached)}

InitStart ==
    /\ course_data = EmptyDict
    /\ term_out = NotRun
    /\ api_courses = <<>>
    /\ courses_out = NotRun
    /\ config_file \in {Absent, Json([hidden_courses |-> <<1>>])}
    /\ data_file \in StartCacheFiles
    /\ Constructed(config_file, data_file)
    /\ thread_limit = 1
    /\ note_dirs = {}
    /\ note_files = EmptyDict

NextStart ==
    \/ \E i \in 1..MaxQueue : RunAfter(i)
    \/ \E id \in CourseIds, outcome \in WriteEnds : HideCourse(id, outcome)
    \/ \E id \in CourseIds, outcome \in WriteEnds : UnhideCourse(id, outcome)
    \/ ShowHiddenCourses
    \/ ShowAllCourses
    \/ HideHiddenCourses
    \/ Restart

SpecStart == InitStart /\ [][NextStart]_vars

------------------------------------------------------------------------------
(* SpecHide: hide_course and unhide_course called with any course, hidden  *)
(* or not, in either view                                                   *)

InitHide ==
    /\ course_data = EmptyDict
    /\ term_out = NotRun
    /\ api_courses = <<>>
    /\ courses_out = NotRun
    /\ config_file \in {Absent, Corrupt, Json([hidden_courses |-> <<1>>])}
    /\ data_file \in CacheFiles
    /\ Constructed(config_file, data_file)
    /\ thread_limit = 1
    /\ note_dirs = {}
    /\ note_files = EmptyDict

NextHide ==
    \/ \E id \in CourseIds, outcome \in WriteEnds : hide_course(id, outcome)
    \/ \E id \in CourseIds, outcome \in WriteEnds : unhide_course(id, outcome)
    \/ ShowHiddenCourses
    \/ HideHiddenCourses

SpecHide == InitHide /\ [][NextHide]_vars

-----------------------------------------------------------------------------
(* SpecTerm: extract_term applied to every record of TermRecords *)

InitTerm ==
    /\ course_data \in TermRecords
    /\ term_out = NotRun
    /\ api_courses = <<>>
    /\ courses_out = NotRun
    /\ config_file = Absent
    /\ data_file = Absent
    /\ Constructed(Absent, Absent)
    /\ thread_limit = 1
    /\ note_dirs = {}
    /\ note_files = EmptyDict

ExtractTerm ==
    /\ term_out = NotRun
    /\ term_out' = extract_term(course_data)
    /\ UNCHANGED <<course_data, api_courses, courses_out, appVars, noteVars, thread_limit>>

NextTerm == ExtractTerm

SpecTerm == InitTerm /\ [][NextTerm]_vars

-----------------------------------------------------------------------------
(* SpecRefresh: the application started with a connection stored, and the  *)
(* refresh alone; up to MaxWorkers load_courses threads overlap            *)

\* a config file with a connection, as save_api_config writes it
StoredConnection ==
    Json([canvas_url |-> <<"v">>, canvas_token |-> <<"s">>, last_updated |-> Now])

InitRefresh ==
    /\ course_data = EmptyDict
    /\ term_out = NotRun
    /\ api_courses = <<>>
    /\ courses_out = NotRun
    /\ config_file = StoredConnection
    /\ data_file = Absent
    /\ Constructed(config_file, data_file)
    /\ thread_limit = MaxWorkers
    /\ note_dirs = {}
    /\ note_files = EmptyDict

NextRefresh ==
    \/ RefreshCourses
    \/ \E t \in BagToSet(workers), resp \in Responses : WorkerFetch(t, resp)
    \/ \E t \in BagToSet(workers), outcome \in WriteOutcomes : WorkerSaveWrite(t, outcome)
    \/ \E t \in BagToSet(workers) : WorkerPost(t)
    \/ \E i \in 1..MaxQueue : RunAfter(i)

SpecRefresh == InitRefresh /\ [][NextRefresh]_vars

\* the states a load_courses thread goes through
ThreadStates ==
    {Thread("fetch", <<>>, TRUE), Thread("post", <<>>, TRUE), Thread("post", <<>>, FALSE)}
        \cup {Thread("write", get_courses(resp).value, TRUE) :
                 resp \in {r \in Responses : ~get_courses(r).raised}}

\* the scheduler runs every thread that can take a step, urlopen returns or
\* raises, and the event loop runs the callbacks posted; root.after itself
\* never waits, so a thread about to post gets to post
FairRefresh ==
    /\ \A t \in {u \in ThreadStates : u.pc = "fetch"} :
          WF_vars(BagIn(t, workers) /\ \E resp \in Responses : WorkerFetch(t, resp))
    /\ \A t \in {u \in ThreadStates : u.pc = "write"} :
          WF_vars(BagIn(t, workers)
                    /\ \E outcome \in WriteOutcomes : WorkerSaveWrite(t, outcome))
    /\ \A t \in {u \in ThreadStates : u.pc = "post"} :
          SF_vars(BagIn(t, workers) /\ WorkerPost(t))
    /\ WF_vars(\E i \in 1..MaxQueue : RunAfter(i))

SpecRefreshFair == SpecRefresh /\ FairRefresh

------------------------------------------------------------------------------
(* SpecHidden: refreshes of a dashboard that has courses hidden, with and   *)
(* without a client, next to the hide and unhide buttons                    *)

\* the connection stored or not, with or without a hidden course
HiddenConfigFiles ==
    {StoredConnection,
     Json([hidden_courses |-> <<1>>]),
     Json([canvas_url |-> <<"v">>, canvas_token |-> <<"s">>, last_updated |-> Now,
           hidden_courses |-> <<1>>])}

InitHidden ==
    /\ course_data = EmptyDict
    /\ term_out = NotRun
    /\ api_courses = <<>>
    /\ courses_out = NotRun
    /\ config_file \in HiddenConfigFiles
    /\ data_file \in CacheFiles
    /\ Constructed(config_file, data_file)
    /\ thread_limit = 1
    /\ note_dirs = {}
    /\ note_files = EmptyDict

NextHidden ==
    \/ RefreshCourses
    \/ \E t \in BagToSet(workers), resp \in Responses : WorkerFetch(t, resp)
    \/ \E t \in BagToSet(workers), outcome \in WriteOutcomes : WorkerSaveWrite(t, outcome)
    \/ \E t \in BagToSet(workers) : WorkerPost(t)
    \/ \E i \in 1..MaxQueue : RunAfter(i)
    \/ \E id \in CourseIds, outcome \in WriteEnds : HideCourse(id, outcome)
    \/ \E id \in CourseIds, outcome \in WriteEnds : UnhideCourse(id, outcome)
    \/ ShowHiddenCourses
    \/ ReturnToDashboard

SpecHidden == InitHidden /\ [][NextHidden]_vars

-----------------------------------------------------------------------------
(* SpecMap: get_courses applied to every array of up to MaxRaw raw records *)

\* the longest array of raw course records
MaxRaw == 2

\* the keys of a raw course record that Canvas may leave out
OptionalKeys == {"name", "course_code", "workflow_state", "start_at"}

\* raw course records: course 1 in full, and with any of the optional keys
\* left out (end_at goes with start_at)
RawRecords ==
    {[k \in (DOMAIN RawBio \ (OptionalKeys \cup {"end_at"}))
              \cup keys \cup (IF "start_at" \in keys THEN {"end_at"} ELSE {})
         |-> RawBio[k]] : keys \in SUBSET OptionalKeys}
      \cup {RawArt, RawLab}

RECURSIVE RawArrays(_)
RawArrays(n) ==
    IF n = 0 THEN {<<>>}
    ELSE RawArrays(n - 1)
            \cup {Append(a, r) : a \in {b \in RawArrays(n - 1) : Len(b) = n - 1},
                                 r \in RawRecords}

\* what get_courses returned
Returned(r) == [tag |-> "returned", val |-> r]

InitMap ==
    /\ course_data = EmptyDict
    /\ term_out = NotRun
    /\ api_courses \in RawArrays(MaxRaw)
    /\ courses_out = NotRun
    /\ config_file = Absent
    /\ data_file = Absent
    /\ Constructed(Absent, Absent)
    /\ thread_limit = 1
    /\ note_dirs = {}
    /\ note_files = EmptyDict

GetCourses ==
    /\ courses_out = NotRun
    /\ courses_out' = Returned(get_courses([status |-> 200, body |-> "array",
                                            items |-> api_courses]))
    /\ UNCHANGED <<course_data, term_out, api_courses, appVars, noteVars, thread_limit>>

NextMap == GetCourses

SpecMap == InitMap /\ [][NextMap]_vars

------------------------------------------------------------------------------
(* SpecCache: the courses get_courses returned are written to the cache    *)
(* file and read back by the next start                                     *)

\* save_courses_to_cache(courses) with the list get_courses returned
SaveCoursesToCache(outcome) ==
    /\ courses_out # NotRun
    /\ data_file' = save_courses_to_cache(data_file, courses_out.val.value, outcome)
    /\ Write(outcome)
    /\ UNCHANGED <<canvas_api, courses, hidden_courses, showing_hidden, config_file,
                   screen, frame, after_queue, workers, notification, funVars, noteVars,
                   thread_limit>>

NextCache ==
    \/ GetCourses
    \/ \E outcome \in WriteOutcomes : SaveCoursesToCache(outcome)
    \/ Restart

SpecCache == InitMap /\ [][NextCache]_vars

-----------------------------------------------------------------------------
(* What the claims about extract_term speak of, stated on the text itself  *)
(* (positions and runs), not through the search operators above.           *)

SameLetter(c, d) ==
    \/ c = d
    \/ \E n \in DOMAIN UpperLetters : {c, d} = {UpperLetters[n], LowerLetters[n]}

\* s[i..j] is a season name in any letter case
IsSeasonName(s, i, j) ==
    \E a \in DOMAIN SeasonAlternatives :
        /\ j - i + 1 = Len(SeasonAlternatives[a])
        /\ \A n \in 1..Len(SeasonAlternatives[a]) :
              SameLetter(s[i + n - 1], SeasonAlternatives[a][n])

AllIn(s, i, j, chars) == \A n \in i..j : s[n] \in chars

\* the labels "<season> <year>" of the season+year occurrences in s: a season
\* name s[i..j], whitespace, four digits s[k..k+3]
SeasonYearLabels(s) ==
    UNION {UNION {{SubSeq(s, i, j) \o <<" ">> \o SubSeq(s, k, k + 3) :
                      k \in {n \in (j + 1)..(Len(s) - 3) :
                                /\ AllIn(s, j + 1, n - 1, Whitespace)
                                /\ AllIn(s, n, n + 3, Digits)}} :
                  j \in {m \in i..Len(s) : IsSeasonName(s, i, m)}} :
           i \in 1..Len(s)}

\* the runs of four digits in s
FourDigitNumbers(s) ==
    {SubSeq(s, i, i + 3) : i \in {n \in 1..(Len(s) - 3) : AllIn(s, n, n + 3, Digits)}}

HasDigit(s) == \E i \in 1..Len(s) : s[i] \in Digits

\* the labels "Term: <digits>" of the occurrences in s of Term: at i, whitespace,
\* digits s[k..e], the digits taken up to the first character that is none
TermIdLabels(s) ==
    UNION {UNION {{TermLiteral \o <<" ">> \o SubSeq(s, k, e) :
                      e \in {n \in k..Len(s) :
                                /\ AllIn(s, k, n, Digits)
                                /\ (n = Len(s) \/ s[n + 1] \notin Digits)}} :
                  k \in {m \in (i + Len(TermLiteral))..Len(s) :
                            AllIn(s, i + Len(TermLiteral), m - 1, Whitespace)}} :
           i \in {n \in 1..(Len(s) - Len(TermLiteral) + 1) :
                    SubSeq(s, n, n + Len(TermLiteral) - 1) = TermLiteral}}

Ran == term_out # NotRun

NameOf(cd) == IF "name" \in DOMAIN cd THEN cd["name"] ELSE <<>>

CodeOf(cd) == IF "course_code" \in DOMAIN cd THEN cd["course_code"] ELSE <<>>

\* the record carries no term object: no 'term' key, or a null
NoTermObject(cd) == "term" \notin DOMAIN cd \/ cd["term"] = None

\* the record carries a term object whose name is a non-empty string
HasNamedTerm(cd) ==
    /\ "term" \in DOMAIN cd
    /\ cd["term"] # None
    /\ "name" \in DOMAIN cd["term"]
    /\ cd["term"]["name"].tag = "str"
    /\ cd["term"]["name"].val # <<>>

\* C3: for every record with a term object whose name is a non-empty string,
\* extract_term returns exactly that name, whatever name and course_code hold.
C3_ExplicitTermVerbatim ==
    (Ran /\ HasNamedTerm(course_data)) => term_out = course_data["term"]["name"]

C3_Witness ==
    /\ Ran
    /\ HasNamedTerm(course_data)
    /\ SeasonYearLabels(NameOf(course_data)) # {}
    /\ FourDigitNumbers(CodeOf(course_data)) # {}

\* C4: for every record without a term object the result comes from the first
\* applicable step of: season+year in name, season+year in course_code, four
\* digits in name, four digits in course_code, "Term:" digits in name, fallback.
C4_StepOrder ==
    (Ran /\ NoTermObject(course_data)) =>
        LET name == NameOf(course_data)
            code == CodeOf(course_data)
        IN  /\ term_out.tag = "str"
            /\ IF SeasonYearLabels(name) # {}
                  THEN term_out.val \in SeasonYearLabels(name)
               ELSE IF SeasonYearLabels(code) # {}
                  THEN term_out.val \in SeasonYearLabels(code)
               ELSE IF FourDigitNumbers(name) # {}
                  THEN term_out.val \in FourDigitNumbers(name)
               ELSE IF FourDigitNumbers(code) # {}
                  THEN term_out.val \in FourDigitNumbers(code)
               ELSE IF TermIdLabels(name) # {}
                  THEN term_out.val \in TermIdLabels(name)
               ELSE term_out.val = CurrentTerm

\* season+year in course_code against a bare year in name, whose labels differ
C4_Witness ==
    /\ Ran
    /\ NoTermObject(course_data)
    /\ SeasonYearLabels(NameOf(course_data)) = {}
    /\ SeasonYearLabels(CodeOf(course_data)) # {}
    /\ FourDigitNumbers(NameOf(course_data)) # {}
    /\ FourDigitNumbers(NameOf(course_data)) \cap FourDigitNumbers(CodeOf(course_data)) = {}

\* C5: no term object, no season+year in either field, no digit in name and a
\* four-digit number in course_code: the result is that number.
C5_YearFromCode ==
    (/\ Ran
     /\ NoTermObject(course_data)
     /\ SeasonYearLabels(NameOf(course_data)) = {}
     /\ SeasonYearLabels(CodeOf(course_data)) = {}
     /\ ~HasDigit(NameOf(course_data))
     /\ FourDigitNumbers(CodeOf(course_data)) # {})
        => /\ term_out.tag = "str"
           /\ term_out.val \in FourDigitNumbers(CodeOf(course_data))
           /\ Len(term_out.val) = 4

C5_Witness ==
    /\ Ran
    /\ NoTermObject(course_data)
    /\ SeasonYearLabels(NameOf(course_data)) = {}
    /\ SeasonYearLabels(CodeOf(course_data)) = {}
    /\ ~HasDigit(NameOf(course_data))
    /\ ContainsTermLiteral(NameOf(course_data))
    /\ FourDigitNumbers(CodeOf(course_data)) = {<<"2", "0", "2", "4">>}
    /\ term_out = PyStr(<<"2", "0", "2", "4">>)

\* C6: no term object, no season+year and no four-digit number in either field,
\* and "Term:" followed by digits in name: the result is "Term: <digits>".
C6_TermIdLabel ==
    (/\ Ran
     /\ NoTermObject(course_data)
     /\ SeasonYearLabels(NameOf(course_data)) = {}
     /\ SeasonYearLabels(CodeOf(course_data)) = {}
     /\ FourDigitNumbers(NameOf(course_data)) = {}
     /\ FourDigitNumbers(CodeOf(course_data)) = {}
     /\ TermIdLabels(NameOf(course_data)) # {})
        => /\ term_out.tag = "str"
           /\ term_out.val \in TermIdLabels(NameOf(course_data))

\* name "Term: 42": the label is "Term: 42"
C6_Witness ==
    /\ Ran
    /\ NoTermObject(course_data)
    /\ NameOf(course_data) = <<"T", "e", "r", "m", ":", " ", "4", "2">>
    /\ term_out = PyStr(<<"T", "e", "r", "m", ":", " ", "4", "2">>)

\* C7: no term object, no season+year, no four-digit number, no "Term:" followed
\* by digits in name: the result is "Current Term".
C7_Fallback ==
    (/\ Ran
     /\ NoTermObject(course_data)
     /\ SeasonYearLabels(NameOf(course_data)) = {}
     /\ SeasonYearLabels(CodeOf(course_data)) = {}
     /\ FourDigitNumbers(NameOf(course_data)) = {}
     /\ FourDigitNumbers(CodeOf(course_data)) = {}
     /\ TermIdLabels(NameOf(course_data)) = {})
        => term_out = PyStr(CurrentTerm)

\* a name that holds "Term:" with no digits after it
C7_Witness ==
    /\ Ran
    /\ NoTermObject(course_data)
    /\ ContainsTermLiteral(NameOf(course_data))
    /\ TermIdLabels(NameOf(course_data)) = {}
    /\ HasDigit(CodeOf(course_data))
    /\ term_out = PyStr(CurrentTerm)

-----------------------------------------------------------------------------
(* The claims about refresh and about hiding, stated on the steps of Spec *)

\* the list get_courses maps out of the array of an answer
mapped(resp) == [i \in DOMAIN resp.items |-> map_course(resp.items[i])]

\* the ids of the cards shown as not hidden
visible_ids(fr) == {fr.cards[c].id : c \in {c \in DOMAIN fr.cards : ~fr.cards[c].hidden}}

\* C1: a refresh whose fetch fails (no answer, a non-2xx answer, a body that is
\* no array) leaves the in-memory course list as it was, goes on to report the
\* failure without writing the cache file, and reports it.
C1_FailedFetchChangesNothing ==
    [][\A t \in BagToSet(workers) :
          /\ \A resp \in Responses :
                (WorkerFetch(t, resp) /\ ~Answered(resp))
                    => /\ courses' = courses
                       /\ data_file' = data_file
                       /\ Become(t, Thread("post", <<>>, FALSE))
          /\ (WorkerPost(t) /\ ~t.ok)
                => after_queue'[Len(after_queue')].cb = "refresh_failed"]_vars

\* C2: every get_courses the program calls fails with an error carrying the
\* status when the request got no 2xx answer, and returns the empty list only
\* for an answer that is the empty array.
C2_FailureIsNotEmptyList ==
    [][\A resp \in Responses :
          (\/ \E t \in BagToSet(workers) : WorkerFetch(t, resp)
           \/ \E url_var \in UrlInputs, token_var \in TokenInputs, outcome \in WriteEnds :
                 /\ strip(url_var) # <<>>
                 /\ strip(token_var) # <<>>
                 /\ SaveApiConfig(url_var, token_var, resp, outcome))
              => /\ resp.status # 200
                    => (get_courses(resp).raised
                        /\ get_courses(resp).error.status = resp.status)
                 /\ (~get_courses(resp).raised /\ get_courses(resp).value = <<>>)
                    => (Answered(resp) /\ resp.items = <<>>)]_vars

\* C8: every course of the in-memory list has a term that is a non-empty string.
C8_TermNonEmpty ==
    \A i \in DOMAIN courses :
        courses[i].term # None /\ courses[i].term # PyStr(<<>>)

\* C9: a refresh whose fetch was answered sets the in-memory list to the mapped
\* array of the answer and goes on to write it, and the write of a refresh
\* leaves a snapshot whose courses are those of the in-memory list and whose
\* total_courses is its length.
C9_RefreshReplacesAndPersists ==
    [][\A t \in BagToSet(workers) :
          /\ \A resp \in Responses :
                (WorkerFetch(t, resp) /\ Answered(resp))
                    => /\ courses' = mapped(resp)
                       /\ Become(t, Thread("write", mapped(resp), TRUE))
          /\ \A outcome \in WriteOutcomes :
                WorkerSaveWrite(t, outcome)
                    => /\ data_file'.kind = "json"
                       /\ data_file'.json.courses
                             = [i \in DOMAIN courses' |-> course_dict(courses'[i])]
                       /\ data_file'.json.total_courses = Len(courses')]_vars

\* C10: after hide_course the course has no visible card, after unhide_course
\* a course of the list has one again, and after either load_hidden_courses on
\* the config file gives the in-memory hidden set.
C10_HideUnhidePersist ==
    [][\A id \in CourseIds, outcome \in WriteEnds :
          /\ HideCourse(id, outcome)
                => /\ id \notin visible_ids(frame')
                   /\ load_hidden_courses(config_file') = hidden_courses'
          /\ UnhideCourse(id, outcome)
                => /\ (\E i \in DOMAIN courses : courses[i].id = id)
                          => id \in visible_ids(frame')
                   /\ load_hidden_courses(config_file') = hidden_courses']_vars

-----------------------------------------------------------------------------
(* The claims about the config file and the configuration screen *)

\* what a file holds under a key: nothing when the file is absent, is no JSON
\* document, or has no such key
stored(file, key) ==
    IF file.kind = "json" /\ key \in DOMAIN file.json
    THEN [present |-> TRUE, value |-> file.json[key]]
    ELSE [present |-> FALSE, value |-> <<>>]

\* a step of save_api_config
SaveApiConfigStep ==
    \E url_var \in UrlInputs, token_var \in TokenInputs, resp \in TestFetches,
       outcome \in WriteEnds : SaveApiConfig(url_var, token_var, resp, outcome)

\* a step of hide_course or unhide_course, which persist the hidden set
PersistHiddenStep ==
    \E id \in CourseIds, outcome \in WriteEnds :
        HideCourse(id, outcome) \/ UnhideCourse(id, outcome)

\* C11: persisting the hidden set leaves the stored canvas_url and canvas_token
\* as they were, persisting the connection leaves the stored hidden_courses as
\* they were, and a config file that was readable stays readable, whether the
\* write succeeds or fails.
C11_ReadMergeWrite ==
    [][/\ PersistHiddenStep
            => /\ stored(config_file', "canvas_url") = stored(config_file, "canvas_url")
               /\ stored(config_file', "canvas_token") = stored(config_file, "canvas_token")
               /\ config_file.kind = "json" => config_file'.kind = "json"
       /\ SaveApiConfigStep
            => /\ stored(config_file', "hidden_courses")
                     = stored(config_file, "hidden_courses")
               /\ config_file.kind = "json" => config_file'.kind = "json"]_vars

\* s is empty once stripped: it holds nothing but whitespace
IsBlank(s) == \A i \in DOMAIN s : s[i] \in Whitespace

C13_SaveOnlyAfterSuccessfulFetch ==
    [][\A url_var \in UrlInputs, token_var \in TokenInputs, resp \in Responses,
          outcome \in WriteEnds :
          (~Answered(resp) /\ SaveApiConfig(url_var, token_var, resp, outcome))
              => /\ config_file' = config_file
                 /\ canvas_api' = canvas_api]_vars

C15_CacheLoadAllOrNothing ==
    (data_file.kind = "absent" \/ cache_load_raised(data_file)) => courses = <<>>

IsSafeChar(c) == c \in Alnum \cup {" ", "-", "_"}

\* dir is name with only the safe characters kept and the whitespace at its
\* end trimmed
IsSanitized(dir, name) ==
    LET kept == SelectSeq(name, IsSafeChar)
    IN  \E n \in 0..Len(kept) :
           /\ dir = SubSeq(kept, 1, n)
           /\ n = 0 \/ kept[n] \notin Whitespace
           /\ \A i \in (n + 1)..Len(kept) : kept[i] \in Whitespace

\* name is value with .txt appended when value does not end with it
IsNoteName(name, value) ==
    IF Len(value) >= 4 /\ SubSeq(value, Len(value) - 3, Len(value)) = <<".", "t", "x", "t">>
    THEN name = value
    ELSE name = value \o <<".", "t", "x", "t">>

\* C17: the directory of the course opened is named by the sanitized course
\* name, and a save-as that succeeds is a round trip: the file <filename>.txt
\* (or <filename> when it ends with .txt already) of that directory holds
\* what was saved, whatever it held before, and the list of the course's notes
\* contains that filename.
C17_SaveListRoundTrip ==
    [][/\ \A c \in DOMAIN courses :
             OpenCourseDetails(c)
                => /\ Len(current_course_dir'.val) = 1
                   /\ IsSanitized(current_course_dir'.val[1], courses[c].name)
       /\ \A input \in FilenameInputs :
             HandleSaveNoteAs(input, "ok")
                => \E name \in set(file_listbox') :
                      /\ IsNoteName(name, strip(input))
                      /\ Append(current_course_dir.val, name) \in DOMAIN note_files'
                      /\ note_files'[Append(current_course_dir.val, name)]
                            = Append(text_editor, "\n")]_vars

\* C18: a file that handle_new_note_creation or handle_save_note_as creates or
\* writes lies directly inside the directory of the current course, whatever
\* name was entered.
C18_NotesStayInCourseDir ==
    [][(\E input \in FilenameInputs, outcome \in WriteEnds :
           HandleNewNoteCreation(input, outcome) \/ HandleSaveNoteAs(input, outcome))
          => \A p \in DOMAIN note_files' :
                (p \notin DOMAIN note_files \/ note_files'[p] # note_files[p])
                    => parent(p) = current_course_dir.val]_vars

\* how a write that was attempted and did not succeed ends
FailedWrites == {"open_fails", "write_fails"}

\* C19: a local write that fails is caught by the operation that attempted
\* it and reported as a failure, never left as an exception and never
\* followed by a report of success: the hidden-set write of hide and unhide,
\* the config write of save_api_config, the cache write of a refresh, the
\* note write of new-note, save and save-as.
C19_WriteFailuresSurface ==
    [][\A outcome \in FailedWrites :
          /\ \A id \in CourseIds :
                (HideCourse(id, outcome) \/ UnhideCourse(id, outcome))
                    => notification'.type = "error"
          /\ \A url_var \in UrlInputs, token_var \in TokenInputs, resp \in Responses :
                SaveApiConfig(url_var, token_var, resp, outcome)
                    => notification'.type = "error"
          /\ \A t \in BagToSet(workers) :
                WorkerSaveWrite(t, outcome) => Become(t, Thread("post", <<>>, FALSE))
          /\ \A input \in FilenameInputs :
                (HandleNewNoteCreation(input, outcome) \/ HandleSaveNoteAs(input, outcome))
                    => ~unhandled' /\ notification'.type = "error"
          /\ SaveCurrentNote(outcome) => notification'.type = "error"]_vars

C21_WorkerOnlyPostsBack ==
    [][(\/ \E t \in BagToSet(workers), resp \in Responses : WorkerFetch(t, resp)
        \/ \E t \in BagToSet(workers), outcome \in WriteOutcomes : WorkerSaveWrite(t, outcome)
        \/ \E t \in BagToSet(workers) : WorkerPost(t))
          => courses' = courses]_vars

\* C23: once every load_courses thread has finished, and no write has
\* failed, the courses of the cache file are the courses in memory, however
\* the steps of overlapping threads were interleaved.
C23_OverlapConverges ==
    (workers = EmptyBag /\ io_failures = 0 /\ data_file.kind = "json")
        => data_file.json.courses = [i \in DOMAIN courses |-> course_dict(courses[i])]

C24_ClientMatchesConfigFile == canvas_api = load_config(config_file)

\* a step of a refresh: the Refresh button, a step of its load_courses thread,
\* or a callback the thread posted
RefreshStep ==
    \/ RefreshCourses
    \/ \E t \in BagToSet(workers), resp \in Responses : WorkerFetch(t, resp)
    \/ \E t \in BagToSet(workers), outcome \in WriteOutcomes : WorkerSaveWrite(t, outcome)
    \/ \E t \in BagToSet(workers) : WorkerPost(t)
    \/ \E i \in 1..MaxQueue : RunAfter(i)

\* C25: no step of a refresh changes the hidden set: the hidden ids in memory
\* and the hidden_courses stored in the config file are after the step what
\* they were before it, the ids of courses missing from the fetched list
\* included.
C25_RefreshKeepsHidden ==
    [][RefreshStep
         => /\ hidden_courses' = hidden_courses
            /\ stored(config_file', "hidden_courses") = stored(config_file, "hidden_courses")]_vars

\* a refresh has ended with a fetched list that lacks a hidden course, which
\* is still hidden in memory and in the config file
C25_Witness ==
    /\ workers = EmptyBag
    /\ after_queue = <<>>
    /\ notification = Notification("load_courses", "success")
    /\ courses # <<>>
    /\ \E id \in hidden_courses :
          /\ \A i \in DOMAIN courses : courses[i].id # id
          /\ id \in set(stored(config_file, "hidden_courses").value)

\* C26: a refresh without an API client starts no load_courses thread and
\* posts no callback, leaves the course list, the cache file, the hidden set
\* and the config file as they were, and opens the configuration screen.
C26_RefreshWithoutClient ==
    [][(RefreshCourses /\ canvas_api = None)
         => /\ workers' = workers
            /\ after_queue' = after_queue
            /\ courses' = courses
            /\ data_file' = data_file
            /\ hidden_courses' = hidden_courses
            /\ config_file' = config_file
            /\ canvas_api' = None
            /\ screen' = "config"]_vars

\* Refresh was pressed without a client on a dashboard with cached courses and
\* a hidden course: the configuration screen is open
C26_Witness ==
    /\ canvas_api = None
    /\ screen = "config"
    /\ workers = EmptyBag
    /\ courses # <<>>
    /\ hidden_courses # {}
    /\ data_file.kind = "json"

\* C27: hiding and unhiding are idempotent and inverse: hide_course on an id
\* that is hidden leaves the hidden set as it was; unhide_course on an id that
\* is not hidden changes nothing and writes nothing to the config file;
\* hide_course on an id that was not hidden yields a set from which unhiding
\* the id gives back the set before, and unhiding a hidden id yields a set
\* from which hiding it gives back the set before.
C27_HideUnhideAlgebra ==
    [][\A id \in CourseIds :
          /\ (id \in hidden_courses /\ \E outcome \in WriteEnds : hide_course(id, outcome))
                => hidden_courses' = hidden_courses
          /\ (id \notin hidden_courses /\ \E outcome \in WriteEnds : unhide_course(id, outcome))
                => /\ hidden_courses' = hidden_courses
                   /\ config_file' = config_file
                   /\ io_failures' = io_failures
          /\ (id \notin hidden_courses /\ \E outcome \in WriteEnds : hide_course(id, outcome))
                => /\ id \in hidden_courses'
                   /\ unhide(hidden_courses', id) = hidden_courses
          /\ (id \in hidden_courses /\ \E outcome \in WriteEnds : unhide_course(id, outcome))
                => /\ id \notin hidden_courses'
                   /\ hide(hidden_courses', id) = hidden_courses]_vars

\* a course was hidden and unhidden again on a first start: the hidden set is
\* empty as before, and so is the list the config file now stores
C27_Witness ==
    /\ notification = Notification("unhide_course", "success")
    /\ hidden_courses = {}
    /\ stored(config_file, "hidden_courses") = [present |-> TRUE, value |-> <<>>]

\* C28: writing the cache and loading it is a round trip: a start that finds
\* the cache file written from a course list loads the same courses in the
\* same order, each with the same id, name, course_code, workflow_state, term,
\* start_at and end_at.
C28_CacheRoundTrip ==
    [][(Restart /\ courses_out # NotRun /\ data_file.kind = "json")
          => /\ Len(courses') = Len(courses_out.val.value)
             /\ \A i \in DOMAIN courses_out.val.value :
                   \A k \in {"id", "name", "course_code", "workflow_state", "term",
                             "start_at", "end_at"} :
                       courses'[i][k] = courses_out.val.value[i][k]]_vars

\* two different courses were written and loaded again, in their order
C28_Witness ==
    /\ courses_out # NotRun
    /\ data_file.kind = "json"
    /\ Len(courses) = 2
    /\ courses[1].id # courses[2].id
    /\ courses = courses_out.val.value
    /\ after_queue # <<>>

\* C29: a new note whose filename, after .txt is appended, already exists
\* leaves every existing file with the content it had: the header is written
\* only to a file that did not exist, and nothing else is written.
C29_NewNoteKeepsExisting ==
    [][\A input \in FilenameInputs :
          (\E outcome \in WriteEnds : HandleNewNoteCreation(input, outcome))
             => LET file_path == join(current_course_dir.val, with_txt(strip(input)))
                IN  /\ \A p \in DOMAIN note_files :
                          p \in DOMAIN note_files' /\ note_files'[p] = note_files[p]
                    /\ exists(note_files, note_dirs, file_path) => note_files' = note_files
                    /\ \A p \in DOMAIN note_files' \ DOMAIN note_files :
                          /\ p = file_path
                          /\ note_files'[p]
                               \in {note_header(current_course.val, with_txt(strip(input))),
                                    <<>>}]_vars

\* New Note was confirmed with the name of a note that holds other text than a
\* header: the note is listed and open in the editor with that text
C29_Witness ==
    /\ screen = "editor"
    /\ current_file_path # None
    /\ current_file_path.val \in DOMAIN note_files
    /\ note_files[current_file_path.val] = <<"h", "\n">>
    /\ text_editor = note_files[current_file_path.val]
    /\ ~unhandled

\* C30: in the course editor the current file path is unset or names a file
\* directly inside the notes directory of the course that is open, so that
\* Save writes there and nowhere else.
C30_CurrentFileInOpenCourse ==
    screen = "editor"
        => \/ current_file_path = None
           \/ /\ current_file_path.val # <<>>
              /\ parent(current_file_path.val) = current_course_dir.val

=============================================================================
